---- MODULE Spec2Model ----
(***************************************************************************)
(* USA Tax Calculator (2025), script.js.                                   *)
(*                                                                         *)
(* Amounts of money are whole dollars.  A rate is held as its percentage   *)
(* (0.10 is 10), so every tax figure (bracketTax, tax, totalTax, refund)   *)
(* is held in hundredths of a dollar: tax = taxedAmount * rate.            *)
(***************************************************************************)
EXTENDS Integers, Sequences, FiniteSets

VARIABLES
    status,       \* value of the #status select
    deduction,    \* value of the #deduction field
    inputs,       \* raw values of #gross #withheld #k401 #otherDed #stcg #ltcg
    warnBox,      \* #warnBox: style.display and textContent
    kpis,         \* #adjustedW2 #totalIncome #taxableIncome #totalTax #refund #refundHint
    bracketRows,  \* rows of the #bracketRows table body
    ltcgRows,     \* rows of the #ltcgRows table body
    ran,          \* calculate() has run at least once
    run,          \* the locals of the last run of calculate()
    ordIn,        \* arguments given to calcOrdinaryTax (pure-function check)
    ordOut,       \* results of calcOrdinaryTax for ordIn.x1 and then ordIn.x2
    cgIn,         \* arguments given to calcLtcgTax (pure-function check)
    cgDone,       \* calcLtcgTax has been applied to cgIn
    cgOut         \* result of calcLtcgTax for cgIn

vars == <<status, deduction, inputs, warnBox, kpis, bracketRows, ltcgRows,
          ran, run, ordIn, ordOut, cgIn, cgDone, cgOut>>

domVars == <<status, deduction, inputs, warnBox, kpis, bracketRows, ltcgRows, ran, run>>
ordVars == <<ordIn, ordOut>>
cgVars == <<cgIn, cgDone, cgOut>>

----------------------------------------------------------------------------
(* Bounds of the explored input space. *)

MaxGross == 2
MaxDeduct == 1
MaxStcg == 1
MaxLtcg == 4
MaxWithheld == 1
MaxGrid == 10
Delta == 2

----------------------------------------------------------------------------
(* Configuration tables. *)

Statuses == {"single", "mfj", "hoh", "mfs"}

\* The value of `to' in the last bracket: above every amount, so that
\* Math.min(x, Infinity) is x.
Infinity == 2147483647

STD_DEDUCTION_2025 ==
    [single |-> 15750, mfs |-> 15750, mfj |-> 31500, hoh |-> 23625]

\* A null entry is kept apart from an array: isNull says which it is.
ORDINARY_BRACKETS_2025 ==
    [single |-> [isNull |-> FALSE, bands |->
        << [rate |-> 10, from |-> 0,      to |-> 11925],
           [rate |-> 12, from |-> 11925,  to |-> 48475],
           [rate |-> 22, from |-> 48475,  to |-> 103350],
           [rate |-> 24, from |-> 103350, to |-> 197300],
           [rate |-> 32, from |-> 197300, to |-> 250525],
           [rate |-> 35, from |-> 250525, to |-> 626350],
           [rate |-> 37, from |-> 626350, to |-> Infinity] >>],
     mfj |-> [isNull |-> TRUE, bands |-> << >>],
     hoh |-> [isNull |-> TRUE, bands |-> << >>],
     mfs |-> [isNull |-> TRUE, bands |-> << >>]]

LTCG_2025 ==
    [single |-> [r0_to |-> 48350, r15_to |-> 533400],
     mfj    |-> [r0_to |-> 96700, r15_to |-> 600050],
     hoh    |-> [r0_to |-> 64750, r15_to |-> 566700],
     mfs    |-> [r0_to |-> 48350, r15_to |-> 300000]]

WAGE_WARNING ==
    "Your deductions (401k + other) are greater than your gross salary. Check inputs."

FALLBACK_NOTICE ==
    "Note: Ordinary income brackets currently use Single brackets as a fallback. Standard deduction and LTCG thresholds use your selected status. If you want full accuracy for MFJ/HOH/MFS, add those bracket tables."

----------------------------------------------------------------------------
(* Helpers. *)

MathMax(a, b) == IF a >= b THEN a ELSE b
MathMin(a, b) == IF a <= b THEN a ELSE b

\* A field's raw text: either it converts to a finite number num, or it does
\* not (Number(v) is NaN or an infinity).
Num(v) == [finite |-> TRUE, num |-> v]
NonNumeric == [finite |-> FALSE, num |-> 0]

n(v) == IF v.finite THEN v.num ELSE 0

clampNonNegIdentity(v) == v

clampNonNeg(v) == MathMax(v, 0)

setWarn(msg) ==
    IF msg = ""
    THEN [display |-> "none", textContent |-> ""]
    ELSE [display |-> "block", textContent |-> msg]

\* STD_DEDUCTION_2025[status] ?? STD_DEDUCTION_2025.single
StdDeductionFor(s) ==
    IF s \in DOMAIN STD_DEDUCTION_2025
    THEN STD_DEDUCTION_2025[s]
    ELSE STD_DEDUCTION_2025.single

----------------------------------------------------------------------------
(* calcOrdinaryTax *)

BracketsNoFallback(s) == ORDINARY_BRACKETS_2025[s].bands

\* ORDINARY_BRACKETS_2025[status] || ORDINARY_BRACKETS_2025.single
BracketsFor(s) ==
    IF s \in DOMAIN ORDINARY_BRACKETS_2025 /\ ~ORDINARY_BRACKETS_2025[s].isNull
    THEN ORDINARY_BRACKETS_2025[s].bands
    ELSE ORDINARY_BRACKETS_2025.single.bands

TaxedAmountTopBandOnly(taxableOrdinary, b) ==
    IF taxableOrdinary > b.to THEN 0 ELSE clampNonNeg(taxableOrdinary - b.from)

TaxedAmount(taxableOrdinary, b) ==
    clampNonNeg(MathMin(taxableOrdinary, b.to) - b.from)

\* The for loop over the brackets: acc is {tax, rows} after the first i-1.
RECURSIVE OrdinaryLoop(_, _, _, _)
OrdinaryLoop(brackets, i, taxableOrdinary, acc) ==
    IF i > Len(brackets)
    THEN acc
    ELSE LET b == brackets[i]
             taxedAmount == TaxedAmount(taxableOrdinary, b)
             bracketTax == taxedAmount * b.rate
         IN  OrdinaryLoop(brackets, i + 1, taxableOrdinary,
                 [tax  |-> acc.tax + bracketTax,
                  rows |-> Append(acc.rows,
                              [label       |-> b.rate,
                               taxedAmount |-> taxedAmount,
                               rate        |-> b.rate,
                               tax         |-> bracketTax])])

calcOrdinaryTax(taxableOrdinary, s) ==
    OrdinaryLoop(BracketsFor(s), 1, taxableOrdinary, [tax |-> 0, rows |-> << >>])

----------------------------------------------------------------------------
(* calcLtcgTax *)

\* LTCG_2025[status] || LTCG_2025.single
ThresholdsFor(s) ==
    IF s \in DOMAIN LTCG_2025 THEN LTCG_2025[s] ELSE LTCG_2025.single

Room0Unclamped(t, ordinaryTaxable) == t.r0_to - ordinaryTaxable

Room0(t, ordinaryTaxable) == MathMax(t.r0_to - ordinaryTaxable, 0)

RemainingIgnoringTier0(ltcg, taxedAt0) == ltcg

RemainingAfter0(ltcg, taxedAt0) == ltcg - taxedAt0

Room15FullZone(t, ordinaryTaxable) == MathMax(t.r15_to - t.r0_to, 0)

Room15FromOrdinary(t, ordinaryTaxable) == MathMax(t.r15_to - ordinaryTaxable, 0)

Room15(t, ordinaryTaxable) ==
    LET start15 == MathMax(ordinaryTaxable, t.r0_to)
    IN  MathMax(t.r15_to - start15, 0)

calcLtcgTax(totalTaxableIncome, ltcg, s) ==
    LET t == ThresholdsFor(s)
        ordinaryTaxable == totalTaxableIncome - ltcg
        room0 == Room0(t, ordinaryTaxable)
        taxedAt0 == MathMin(ltcg, room0)
        remainingAfter0 == RemainingAfter0(ltcg, taxedAt0)
        room15 == Room15(t, ordinaryTaxable)
        taxedAt15 == MathMin(remainingAfter0, room15)
        taxedAt20 == MathMax(remainingAfter0 - taxedAt15, 0)
    IN  [tax  |-> (taxedAt15 * 15) + (taxedAt20 * 20),
         rows |-> << [rate |-> 0,  amount |-> taxedAt0,  tax |-> 0],
                     [rate |-> 15, amount |-> taxedAt15, tax |-> taxedAt15 * 15],
                     [rate |-> 20, amount |-> taxedAt20, tax |-> taxedAt20 * 20] >>]

----------------------------------------------------------------------------
(* Rendering.  fmt.format shows a number to the cent; the model keeps the  *)
(* number it is given.                                                     *)

renderOrdinaryRows(rows) ==
    [i \in 1..Len(rows) |->
        <<rows[i].label, rows[i].taxedAmount, rows[i].rate, rows[i].tax>>]

renderLtcgRows(rows) ==
    [i \in 1..Len(rows) |-> <<rows[i].rate, rows[i].amount, rows[i].tax>>]

----------------------------------------------------------------------------
(* The page: init(), the status select's change handler, the Calculate     *)
(* button's click handler.                                                 *)

GrossVals == {NonNumeric, Num(80000)} \cup {Num(220000 * k) : k \in 0..MaxGross}
K401Vals == {Num(23500 * k) : k \in 0..MaxDeduct}
OtherDedVals == {Num(100000 * k) : k \in 0..MaxDeduct}
StcgVals == {Num(5000 * k) : k \in -1..MaxStcg}
LtcgVals == {Num(-10000), Num(10000), Num(60000)} \cup {Num(150000 * k) : k \in 0..MaxLtcg}
WithheldVals == {Num(9000 * k) : k \in 0..MaxWithheld}

InputSpace ==
    [gross : GrossVals, withheld : WithheldVals, k401 : K401Vals,
     otherDed : OtherDedVals, stcg : StcgVals, ltcg : LtcgVals]

NoRun ==
    [status |-> "single", gross |-> 0, withheld |-> 0, k401 |-> 0, otherDed |-> 0,
     stcg |-> 0, ltcg |-> 0, unclampedW2 |-> 0, adjustedW2 |-> 0, totalIncome |-> 0,
     taxableIncome |-> 0, taxableOrdinary |-> 0,
     ordinary |-> [tax |-> 0, rows |-> << >>],
     capgains |-> [tax |-> 0, rows |-> << >>],
     totalTax |-> 0, refund |-> 0]

NoKpis ==
    [adjustedW2 |-> 0, totalIncome |-> 0, taxableIncome |-> 0, totalTax |-> 0,
     refund |-> 0, refundHint |-> "", refundColor |-> ""]

\* The page as loaded, init() done: updateDeduction() has filled #deduction.
InitPage(in) ==
    /\ status = "single"
    /\ deduction = StdDeductionFor("single")
    /\ inputs = in
    /\ warnBox = [display |-> "none", textContent |-> ""]
    /\ kpis = NoKpis
    /\ bracketRows = << >>
    /\ ltcgRows = << >>
    /\ ran = FALSE
    /\ run = NoRun

\* The select's change event: updateDeduction().
updateDeduction(s) ==
    /\ s # status
    /\ status' = s
    /\ deduction' = StdDeductionFor(s)
    /\ UNCHANGED <<inputs, warnBox, kpis, bracketRows, ltcgRows, ran, run>>
    /\ UNCHANGED <<ordVars, cgVars>>

calculate ==
    LET deductionVal == StdDeductionFor(status)
        gross == n(inputs.gross)
        withheld == n(inputs.withheld)
        k401 == n(inputs.k401)
        otherDed == n(inputs.otherDed)
        stcg == n(inputs.stcg)
        ltcg == n(inputs.ltcg)
        unclampedW2 == gross - k401 - otherDed
        warnCleared == setWarn("")
        warnChecked == IF unclampedW2 < 0 THEN setWarn(WAGE_WARNING) ELSE warnCleared
        adjustedW2 == IF unclampedW2 < 0 THEN 0 ELSE unclampedW2
        totalIncome == adjustedW2 + stcg + ltcg
        taxableIncome == clampNonNeg(totalIncome - deductionVal)
        taxableOrdinary == clampNonNeg(taxableIncome - ltcg)
        ordinary == calcOrdinaryTax(taxableOrdinary, status)
        capgains == calcLtcgTax(taxableIncome, ltcg, status)
        totalTax == ordinary.tax + capgains.tax
        refund == (withheld * 100) - totalTax
    IN  /\ deduction' = deductionVal
        /\ kpis' = [adjustedW2 |-> adjustedW2, totalIncome |-> totalIncome,
                    taxableIncome |-> taxableIncome, totalTax |-> totalTax,
                    refund |-> refund,
                    refundHint |-> IF refund >= 0
                                   THEN "Refund (you overpaid withholding)."
                                   ELSE "Amount due (you underpaid withholding).",
                    refundColor |-> IF refund >= 0 THEN "var(--good)" ELSE "var(--bad)"]
        /\ bracketRows' = renderOrdinaryRows(ordinary.rows)
        /\ ltcgRows' = renderLtcgRows(capgains.rows)
        /\ warnBox' = IF status # "single" THEN setWarn(FALLBACK_NOTICE) ELSE warnChecked
        /\ ran' = TRUE
        /\ run' = [status |-> status, gross |-> gross, withheld |-> withheld,
                   k401 |-> k401, otherDed |-> otherDed, stcg |-> stcg, ltcg |-> ltcg,
                   unclampedW2 |-> unclampedW2, adjustedW2 |-> adjustedW2,
                   totalIncome |-> totalIncome, taxableIncome |-> taxableIncome,
                   taxableOrdinary |-> taxableOrdinary, ordinary |-> ordinary,
                   capgains |-> capgains, totalTax |-> totalTax, refund |-> refund]
        /\ UNCHANGED <<status, inputs>>
        /\ UNCHANGED <<ordVars, cgVars>>

----------------------------------------------------------------------------
(* Pure-function checks: calcOrdinaryTax on two amounts, calcLtcgTax on    *)
(* one pair of amounts.                                                    *)

BandEdges == {BracketsFor("single")[i].from : i \in 1..Len(BracketsFor("single"))}

OrdPoints ==
    {100000 * k : k \in 0..MaxGrid}
        \cup {x \in {e + d : e \in BandEdges, d \in -Delta..Delta} : x >= 0}

ThresholdEdges ==
    {0} \cup {LTCG_2025[s].r0_to : s \in Statuses} \cup {LTCG_2025[s].r15_to : s \in Statuses}

LtcgPoints ==
    {100000 * k : k \in 0..MaxGrid} \cup {e + d : e \in ThresholdEdges, d \in -Delta..Delta}

IncomePoints == {x \in LtcgPoints : x >= 0}

OrdIdle ==
    /\ ordIn = [x1 |-> 0, x2 |-> 0, status |-> "single"]
    /\ ordOut = << >>

CgIdle ==
    /\ cgIn = [totalTaxableIncome |-> 0, ltcg |-> 0, status |-> "single"]
    /\ cgDone = FALSE
    /\ cgOut = [tax |-> 0, rows |-> << >>]

ApplyOrdinary ==
    /\ Len(ordOut) < 2
    /\ ordOut' = Append(ordOut,
           calcOrdinaryTax(IF Len(ordOut) = 0 THEN ordIn.x1 ELSE ordIn.x2, ordIn.status))
    /\ UNCHANGED <<ordIn, domVars, cgVars>>

ApplyLtcg ==
    /\ ~cgDone
    /\ cgDone' = TRUE
    /\ cgOut' = calcLtcgTax(cgIn.totalTaxableIncome, cgIn.ltcg, cgIn.status)
    /\ UNCHANGED <<cgIn, domVars, ordVars>>

----------------------------------------------------------------------------
(* Specifications. *)

Init ==
    /\ \E in \in InputSpace : InitPage(in)
    /\ OrdIdle
    /\ CgIdle

Next ==
    \/ calculate
    \/ \E s \in Statuses : updateDeduction(s)

Spec == Init /\ [][Next]_vars

ZeroInputs ==
    [gross |-> Num(0), withheld |-> Num(0), k401 |-> Num(0),
     otherDed |-> Num(0), stcg |-> Num(0), ltcg |-> Num(0)]

InitOrd ==
    /\ InitPage(ZeroInputs)
    /\ CgIdle
    /\ ordIn \in [x1 : OrdPoints, x2 : OrdPoints, status : Statuses]
    /\ ordOut = << >>

NextOrd == ApplyOrdinary

SpecOrd == InitOrd /\ [][NextOrd]_vars

InitLtcg ==
    /\ InitPage(ZeroInputs)
    /\ OrdIdle
    /\ cgIn \in [totalTaxableIncome : IncomePoints, ltcg : LtcgPoints, status : Statuses]
    /\ cgDone = FALSE
    /\ cgOut = [tax |-> 0, rows |-> << >>]

NextLtcg == ApplyLtcg

SpecLtcg == InitLtcg /\ [][NextLtcg]_vars

----------------------------------------------------------------------------
(* Properties. *)

CgValid == cgDone /\ 0 <= cgIn.ltcg /\ cgIn.ltcg <= cgIn.totalTaxableIncome

CgThresholds == LTCG_2025[cgIn.status]

CgOrdinary == cgIn.totalTaxableIncome - cgIn.ltcg

\* C1 (SpecLtcg): for 0 <= ltcg <= totalTaxableIncome and every status, the
\* three amounts calcLtcgTax returns (at 0%, 15%, 20%) are each >= 0 and sum
\* exactly to ltcg.
C1_StackingConservation ==
    CgValid =>
        /\ Len(cgOut.rows) = 3
        /\ \A i \in 1..3 : cgOut.rows[i].amount >= 0
        /\ cgOut.rows[1].amount + cgOut.rows[2].amount + cgOut.rows[3].amount = cgIn.ltcg

\* A valid call whose gains are spread over all three tiers.
C1_Witness ==
    /\ CgValid
    /\ \A i \in 1..3 : cgOut.rows[i].amount > 0

\* C6 (SpecLtcg): for 0 <= ltcg <= totalTaxableIncome, the amount at 20% is
\* > 0 only if the amount at 15% equals roomAt15 and the amount at 0% equals
\* roomAt0, the rooms being those of the thresholds of the status:
\* roomAt0 = max(r0_to - ordinaryTaxable, 0) and
\* roomAt15 = max(r15_to - max(ordinaryTaxable, r0_to), 0).
C6_LowerTiersFilledFirst ==
    (CgValid /\ cgOut.rows[3].amount > 0) =>
        /\ cgOut.rows[1].amount =
              (IF CgThresholds.r0_to > CgOrdinary
               THEN CgThresholds.r0_to - CgOrdinary ELSE 0)
        /\ cgOut.rows[2].amount =
              (IF CgOrdinary >= CgThresholds.r15_to THEN 0
               ELSE IF CgOrdinary >= CgThresholds.r0_to
                    THEN CgThresholds.r15_to - CgOrdinary
                    ELSE CgThresholds.r15_to - CgThresholds.r0_to)

\* A valid call with gains at 20% whose ordinary income already lies inside
\* the 15% zone, so that roomAt0 is 0 and roomAt15 is only part of the zone.
C6_Witness ==
    /\ CgValid
    /\ cgOut.rows[3].amount > 0
    /\ CgOrdinary > CgThresholds.r0_to
    /\ CgOrdinary < CgThresholds.r15_to
    /\ cgOut.rows[2].amount > 0

\* C9 (SpecLtcg): calcLtcgTax(600000, 500000, single) gives 0 at 0%, 433400
\* at 15%, 66600 at 20% and a tax of 78330 dollars (7833000 hundredths).
C9_StackingExample ==
    (cgDone /\ cgIn = [totalTaxableIncome |-> 600000, ltcg |-> 500000, status |-> "single"]) =>
        /\ cgOut.rows[1].amount = 0
        /\ cgOut.rows[2].amount = 433400
        /\ cgOut.rows[3].amount = 66600
        /\ cgOut.tax = 78330 * 100

C9_Witness ==
    /\ cgDone
    /\ cgIn = [totalTaxableIncome |-> 600000, ltcg |-> 500000, status |-> "single"]
    /\ cgOut.tax > 0

OrdBands == ORDINARY_BRACKETS_2025.single.bands

OrdArg(i) == IF i = 1 THEN ordIn.x1 ELSE ordIn.x2

\* The part of x inside band b, by cases on where x lies.
InBand(x, b) ==
    IF x <= b.from THEN 0
    ELSE IF b.to = Infinity \/ x < b.to THEN x - b.from
    ELSE b.to - b.from

RECURSIVE SumRowTax(_, _)
SumRowTax(rows, k) ==
    IF k = 0 THEN 0 ELSE rows[k].taxedAmount * rows[k].rate + SumRowTax(rows, k - 1)

\* C7 (SpecOrd): for any status and 0 <= x1 <= x2, the total tax of
\* calcOrdinaryTax(x1, status) is <= that of calcOrdinaryTax(x2, status).
C7_Monotone ==
    (Len(ordOut) = 2 /\ 0 <= ordIn.x1 /\ ordIn.x1 <= ordIn.x2) =>
        ordOut[1].tax <= ordOut[2].tax

\* Both amounts taxed, the second one in a higher band than the first.
C7_Witness ==
    /\ Len(ordOut) = 2
    /\ 0 < ordIn.x1
    /\ ordIn.x1 < ordIn.x2
    /\ ordOut[1].tax < ordOut[2].tax
    /\ \E k \in 1..Len(OrdBands) :
          /\ ordOut[1].rows[k].taxedAmount = 0
          /\ ordOut[2].rows[k].taxedAmount > 0

\* C8 (SpecOrd): for x >= 0, calcOrdinaryTax returns one row per band of the
\* table, in the table's order (also for the bands above x, with amount 0);
\* each row's taxed amount is max(0, min(x, band.to) - band.from); the total
\* tax is the sum over the rows of taxedAmount * rate; x = 0 gives amount 0 in
\* every row and total tax 0.
C8_RowsAndTotal ==
    \A i \in 1..Len(ordOut) :
        LET x == OrdArg(i)
            r == ordOut[i]
        IN  x >= 0 =>
              /\ Len(r.rows) = Len(OrdBands)
              /\ \A k \in 1..Len(OrdBands) :
                    /\ r.rows[k].rate = OrdBands[k].rate
                    /\ r.rows[k].taxedAmount = InBand(x, OrdBands[k])
                    /\ r.rows[k].tax = r.rows[k].taxedAmount * OrdBands[k].rate
              /\ r.tax = SumRowTax(r.rows, Len(r.rows))
              /\ (x = 0 => r.tax = 0 /\ \A k \in 1..Len(r.rows) : r.rows[k].taxedAmount = 0)

\* An amount that fills some bands, lies inside one and leaves bands empty.
C8_Witness ==
    /\ Len(ordOut) >= 1
    /\ \E a, b, c \in 1..Len(OrdBands) :
          /\ a < b
          /\ b < c
          /\ ordOut[1].rows[a].taxedAmount = OrdBands[a].to - OrdBands[a].from
          /\ ordOut[1].rows[b].taxedAmount > 0
          /\ ordOut[1].rows[b].taxedAmount < OrdBands[b].to - OrdBands[b].from
          /\ ordOut[1].rows[c].taxedAmount = 0

----------------------------------------------------------------------------
(* Properties of calculate. *)

\* C2 (Spec): in every run of calculate the stacker is called with
\* 0 <= ltcg <= taxableIncome, so that ordinaryTaxable = taxableIncome - ltcg
\* is >= 0.
C2_StackerCalledWithinContract ==
    ran =>
        /\ 0 <= run.ltcg
        /\ run.ltcg <= run.taxableIncome
        /\ run.taxableIncome - run.ltcg >= 0

\* C3 (Spec): every amount calculate passes to calcOrdinaryTax and
\* calcLtcgTax (taxableOrdinary, taxableIncome, ltcg) is non-negative,
\* whatever the entries, negative ones included.
C3_CoreReceivesNonNegative ==
    ran =>
        /\ run.taxableOrdinary >= 0
        /\ run.taxableIncome >= 0
        /\ run.ltcg >= 0

\* C4 (Spec): after a run of calculate in which gross - 401k - otherDed was
\* negative, adjusted wage income is 0 and the warning box shows the advisory
\* that deductions exceed gross salary, for every status; after a run in which
\* it was >= 0 the advisory is not shown.
C4_WageClampAdvisory ==
    ran =>
        /\ run.unclampedW2 < 0 =>
              /\ run.adjustedW2 = 0
              /\ warnBox = [display |-> "block", textContent |-> WAGE_WARNING]
        /\ run.unclampedW2 >= 0 => warnBox.textContent # WAGE_WARNING

\* C5 (Spec): after a run of calculate with a status whose bracket table is
\* not populated (mfj, hoh, mfs), the rows and tax calcOrdinaryTax returned are
\* those it returns for status single on the same taxable ordinary income, and
\* the warning box shows the fallback notice; after a run with status single
\* the fallback notice is not shown.
C5_BracketFallback ==
    ran =>
        /\ run.status \in {"mfj", "hoh", "mfs"} =>
              /\ run.ordinary = calcOrdinaryTax(run.taxableOrdinary, "single")
              /\ Len(run.ordinary.rows) = Len(ORDINARY_BRACKETS_2025.single.bands)
              /\ warnBox = [display |-> "block", textContent |-> FALLBACK_NOTICE]
        /\ run.status = "single" => warnBox.textContent # FALLBACK_NOTICE

\* A run with an unpopulated status that owes ordinary tax.
C5_Witness ==
    /\ ran
    /\ run.status # "single"
    /\ run.ordinary.tax > 0
    /\ warnBox.textContent = FALLBACK_NOTICE

\* The stacker as section 4.2 of the specification states it, tax only.
ReferenceStackTax(totalTaxableIncome, ltcgAmount, thresholds) ==
    LET ordinaryTaxable == totalTaxableIncome - ltcgAmount
        roomAt0 == MathMax(thresholds.r0_to - ordinaryTaxable, 0)
        amountAt0 == MathMin(ltcgAmount, roomAt0)
        remaining == ltcgAmount - amountAt0
        startOf15Zone == MathMax(ordinaryTaxable, thresholds.r0_to)
        roomAt15 == MathMax(thresholds.r15_to - startOf15Zone, 0)
        amountAt15 == MathMin(remaining, roomAt15)
        amountAt20 == remaining - amountAt15
    IN  amountAt15 * 15 + amountAt20 * 20

RunNonNegative ==
    /\ run.gross >= 0
    /\ run.withheld >= 0
    /\ run.k401 >= 0
    /\ run.otherDed >= 0
    /\ run.stcg >= 0
    /\ run.ltcg >= 0

\* C10 (Spec): for non-negative entries and every status, also when the
\* long-term gains exceed taxable income, the LTCG tax calculate gets from
\* calcLtcgTax(taxableIncome, ltcg, status) equals the tax of the reference
\* stacker on (taxableIncome, min(ltcg, taxableIncome)) with the thresholds
\* of the status.
C10_TaxOfTaxableGainsOnly ==
    (ran /\ RunNonNegative) =>
        run.capgains.tax =
            ReferenceStackTax(run.taxableIncome,
                              MathMin(run.ltcg, run.taxableIncome),
                              LTCG_2025[run.status])

\* A run whose gains exceed taxable income and are taxed at 15% and at 20%.
C10_Witness ==
    /\ ran
    /\ RunNonNegative
    /\ run.ltcg > run.taxableIncome
    /\ run.capgains.rows[2].amount > 0
    /\ run.capgains.rows[3].amount > 0

====
